---- MODULE Spec2Model ----
(***************************************************************************)
(* Prediction lifecycle of pred-custos: PredictionService over the record  *)
(* store, the create route with its two dispatch flows, the BullMQ queue   *)
(* with its two job processors, and the ML webhook.                        *)
(***************************************************************************)
EXTENDS Integers, FiniteSets, Sequences, TLC

(***************************************************************************)
(* Bounds of the model.                                                    *)
(***************************************************************************)
\* number of prediction ids the store can hand out
MaxPred == 1
\* number of job attempts of one prediction id that may run to a normal return
MaxRuns == 2

Ids == 1..MaxPred
\* a well-formed id that no record ever gets
UnknownId == MaxPred + 1
JobIds == Ids \cup {UnknownId}

(***************************************************************************)
(* JavaScript values that reach the numeric fields.  A value is a record   *)
(* [k, n, d]: k = "num" is the rational n/d (d > 0, reduced), "nan" is     *)
(* NaN, "inf" is +/-Infinity (sign in n), "undefined" a missing JSON       *)
(* field, "string" a non-numeric string, "null" a NULL column.             *)
(***************************************************************************)
Abs(x) == IF x < 0 THEN -x ELSE x

RECURSIVE GCD(_, _)
GCD(a, b) == IF b = 0 THEN a ELSE GCD(b, a % b)

Num(n, d) ==
    LET g == GCD(Abs(n), d)
    IN [k |-> "num", n |-> n \div g, d |-> d \div g]

NaN == [k |-> "nan", n |-> 0, d |-> 1]
Inf(s) == [k |-> "inf", n |-> s, d |-> 1]
Undefined == [k |-> "undefined", n |-> 0, d |-> 1]
NonNumeric == [k |-> "string", n |-> 0, d |-> 1]
Null == [k |-> "null", n |-> 0, d |-> 1]

Sign(x) == IF x < 0 THEN -1 ELSE IF x > 0 THEN 1 ELSE 0

\* Number(v)
ToNumber(v) ==
    CASE v.k = "num" -> v
      [] v.k = "inf" -> v
      [] v.k = "null" -> Num(0, 1)
      [] OTHER -> NaN

\* a / b on JavaScript numbers (operands coerced with Number)
JsDiv(a, b) ==
    LET x == ToNumber(a)
        y == ToNumber(b)
    IN  CASE x.k = "nan" \/ y.k = "nan" -> NaN
          [] x.k = "inf" /\ y.k = "inf" -> NaN
          [] x.k = "inf" -> Inf(x.n * (IF y.n < 0 THEN -1 ELSE 1))
          [] y.k = "inf" -> Num(0, 1)
          [] y.n = 0 -> IF x.n = 0 THEN NaN ELSE Inf(Sign(x.n))
          [] OTHER -> Num(Sign(y.n) * x.n * y.d, Abs(y.n) * x.d)

\* a * b on JavaScript numbers
JsMul(a, b) ==
    LET x == ToNumber(a)
        y == ToNumber(b)
    IN  CASE x.k = "nan" \/ y.k = "nan" -> NaN
          [] x.k = "inf" \/ y.k = "inf" ->
                IF x.n = 0 \/ y.n = 0 THEN NaN ELSE Inf(Sign(x.n) * Sign(y.n))
          [] OTHER -> Num(x.n * y.n, x.d * y.d)

\* truthiness of a value, as used by a || b
Truthy(v) ==
    CASE v.k = "num" -> v.n # 0
      [] v.k = "inf" -> TRUE
      [] v.k = "string" -> TRUE
      [] OTHER -> FALSE

JsOr(a, b) == IF Truthy(a) THEN a ELSE b

\* x <= 0 and x > c on JavaScript numbers: every comparison with NaN is false
LeZero(x) == (x.k = "num" /\ x.n <= 0) \/ (x.k = "inf" /\ x.n < 0)
GtZero(x) == (x.k = "num" /\ x.n > 0) \/ (x.k = "inf" /\ x.n > 0)
GtInt(x, c) == (x.k = "num" /\ x.n > c * x.d) \/ (x.k = "inf" /\ x.n > 0)

\* new Decimal(v) throws [DecimalError] on undefined and on a non-numeric string
DecimalThrows(v) == v.k \in {"undefined", "string", "null"}

(***************************************************************************)
(* Messages and status values.                                             *)
(***************************************************************************)
PENDING == "PENDING"
PROCESSING == "PROCESSING"
COMPLETED == "COMPLETED"
ERROR == "ERROR"

NoMsg == "null"
NoThrow == "none"
InvalidCostMsg == "Invalid cost total: must be greater than 0"
WarningMsg == "WARNING: Abnormally high EUR/kg value detected"
VolumeMsg == "Volume must be greater than 0"
DecimalErrorMsg == "[DecimalError] Invalid argument"
RecordNotFoundMsg == "Record to update not found"
StoreRejectMsg == "Invalid value for argument: NaN"
AbsurdLimit == 10000

VARIABLES
    db,               \* the prediction table: id -> record, for the ids created
    useQueue,         \* process.env.USE_QUEUE === 'true'
    storeAcceptsNaN,  \* whether the store persists a Decimal NaN or rejects the write
    post,             \* per id: position / response of the create request that made it
    jobs,             \* the 'prediction' queue: job id (prediction id) -> job
    qWorker,          \* predictionWorkerInstance of queue.ts is constructed
    wWorkers,         \* number of workers built by initializePredictionWorker
    runs,             \* per id: job attempts of that id whose processor returned normally
    hookResp,         \* status of the last webhook response (0: none yet)
    last,             \* the last direct call of a PredictionService operation
    client,           \* the MLClient invocation under way or last made
    got,              \* the last get by id: its caller, the id asked for, the response
    now               \* the clock the store stamps updatedAt from

vars ==
    <<db, useQueue, storeAcceptsNaN, post, jobs, qWorker, wWorkers, runs, hookResp, last,
      client, got, now>>

(***************************************************************************)
(* PredictionService.  Every operation maps a table to a result            *)
(* [db, thrown]: the table after the call and the message of the error     *)
(* thrown (NoThrow when the call returns).                                 *)
(***************************************************************************)
Ret(d) == [db |-> d, thrown |-> NoThrow]
Throw(d, msg) == [db |-> d, thrown |-> msg]

NextId(d) == Cardinality(DOMAIN d) + 1

\* a Decimal the store may refuse to persist
Unstorable(v) == v.k \in {"nan", "inf"}

\* prisma.prediction.update({ where: { id }, data }); the updatedAt column
\* ("updatedAt" TIMESTAMP(3) NOT NULL, no default) is stamped by every update
Update(d, id, data) ==
    IF id \notin DOMAIN d
    THEN Throw(d, RecordNotFoundMsg)
    ELSE Ret([d EXCEPT ![id] = [f \in DOMAIN d[id] |->
                 IF f = "updatedAt" THEN now
                 ELSE IF f \in DOMAIN data THEN data[f] ELSE d[id][f]]])

\* createPrediction refusing only a negative volume
createPrediction_NegativeOnly(d, data) ==
    IF ToNumber(data.volumeTon).k = "num" /\ ToNumber(data.volumeTon).n < 0
    THEN Throw(d, VolumeMsg)
    ELSE IF DecimalThrows(data.volumeTon)
    THEN Throw(d, DecimalErrorMsg)
    ELSE IF Unstorable(data.volumeTon) /\ ~storeAcceptsNaN
    THEN Throw(d, StoreRejectMsg)
    ELSE Ret(d @@ (NextId(d) :>
            [userId |-> data.userId,
             status |-> PENDING,
             currency |-> data.currency,
             volumeTon |-> data.volumeTon,
             leadTimeDays |-> data.leadTimeDays,
             fuelIndex |-> IF Truthy(data.fuelIndex) THEN data.fuelIndex ELSE Null,
             taxMultiplier |-> IF Truthy(data.taxMultiplier)
                               THEN data.taxMultiplier ELSE Null,
             inputJson |-> data.inputJson,
             costTotal |-> Null,
             euroPerKg |-> Null,
             outputJson |-> "null",
             errorMessage |-> NoMsg,
             updatedAt |-> now]))

\* createPrediction persisting the record as already PROCESSING
createPrediction_Processing(d, data) ==
    IF LeZero(ToNumber(data.volumeTon))
    THEN Throw(d, VolumeMsg)
    ELSE IF DecimalThrows(data.volumeTon)
    THEN Throw(d, DecimalErrorMsg)
    ELSE IF Unstorable(data.volumeTon) /\ ~storeAcceptsNaN
    THEN Throw(d, StoreRejectMsg)
    ELSE Ret(d @@ (NextId(d) :>
            [userId |-> data.userId,
             status |-> PROCESSING,
             currency |-> data.currency,
             volumeTon |-> data.volumeTon,
             leadTimeDays |-> data.leadTimeDays,
             fuelIndex |-> IF Truthy(data.fuelIndex) THEN data.fuelIndex ELSE Null,
             taxMultiplier |-> IF Truthy(data.taxMultiplier)
                               THEN data.taxMultiplier ELSE Null,
             inputJson |-> data.inputJson,
             costTotal |-> Null,
             euroPerKg |-> Null,
             outputJson |-> "null",
             errorMessage |-> NoMsg,
             updatedAt |-> now]))

createPrediction(d, data) ==
    IF LeZero(ToNumber(data.volumeTon))
    THEN Throw(d, VolumeMsg)
    ELSE IF DecimalThrows(data.volumeTon)
    THEN Throw(d, DecimalErrorMsg)
    ELSE IF Unstorable(data.volumeTon) /\ ~storeAcceptsNaN
    THEN Throw(d, StoreRejectMsg)
    ELSE Ret(d @@ (NextId(d) :>
            [userId |-> data.userId,
             status |-> PENDING,
             currency |-> data.currency,
             volumeTon |-> data.volumeTon,
             leadTimeDays |-> data.leadTimeDays,
             fuelIndex |-> IF Truthy(data.fuelIndex) THEN data.fuelIndex ELSE Null,
             taxMultiplier |-> IF Truthy(data.taxMultiplier)
                               THEN data.taxMultiplier ELSE Null,
             inputJson |-> data.inputJson,
             costTotal |-> Null,
             euroPerKg |-> Null,
             outputJson |-> "null",
             errorMessage |-> NoMsg,
             updatedAt |-> now]))

\* markProcessing releasing a prediction that is already PROCESSING
markProcessing_Releases(d, id) ==
    Update(d, id, [status |-> IF id \in DOMAIN d /\ d[id].status = PROCESSING
                              THEN PENDING ELSE PROCESSING])

\* markProcessing writing the input back with the status
markProcessing_RewritesInput(d, id) ==
    Update(d, id, [status |-> PROCESSING, inputJson |-> [volume_ton |-> Null]])

markProcessing(d, id) ==
    Update(d, id, [status |-> PROCESSING])

\* markError refusing to overwrite a COMPLETED record
markError_KeepsCompleted(d, id, errorMessage) ==
    IF id \in DOMAIN d /\ d[id].status = COMPLETED
    THEN Throw(d, "Conflict")
    ELSE Update(d, id, [status |-> ERROR, errorMessage |-> errorMessage])

markError(d, id, errorMessage) ==
    Update(d, id, [status |-> ERROR, errorMessage |-> errorMessage])

\* markCompleted refusing only a negative cost
markCompleted_NegativeOnly(d, id, data) ==
    IF ToNumber(data.costTotal).k = "num" /\ ToNumber(data.costTotal).n < 0
    THEN markError(d, id, InvalidCostMsg)
    ELSE IF DecimalThrows(data.costTotal) \/ DecimalThrows(data.euroPerKg)
    THEN Throw(d, DecimalErrorMsg)
    ELSE IF id \in DOMAIN d
            /\ (Unstorable(data.costTotal) \/ Unstorable(data.euroPerKg))
            /\ ~storeAcceptsNaN
    THEN Throw(d, StoreRejectMsg)
    ELSE Update(d, id,
            [status |-> COMPLETED,
             costTotal |-> ToNumber(data.costTotal),
             euroPerKg |-> ToNumber(data.euroPerKg),
             outputJson |-> data.outputJson,
             errorMessage |-> IF GtInt(ToNumber(data.euroPerKg), AbsurdLimit)
                              THEN WarningMsg ELSE NoMsg])

\* markCompleted writing errorMessage only when it has a warning to store
markCompleted_KeepsMessage(d, id, data) ==
    IF LeZero(ToNumber(data.costTotal))
    THEN markError(d, id, InvalidCostMsg)
    ELSE IF DecimalThrows(data.costTotal) \/ DecimalThrows(data.euroPerKg)
    THEN Throw(d, DecimalErrorMsg)
    ELSE IF id \in DOMAIN d
            /\ (Unstorable(data.costTotal) \/ Unstorable(data.euroPerKg))
            /\ ~storeAcceptsNaN
    THEN Throw(d, StoreRejectMsg)
    ELSE IF GtInt(ToNumber(data.euroPerKg), AbsurdLimit)
    THEN Update(d, id,
            [status |-> COMPLETED,
             costTotal |-> ToNumber(data.costTotal),
             euroPerKg |-> ToNumber(data.euroPerKg),
             outputJson |-> data.outputJson,
             errorMessage |-> WarningMsg])
    ELSE Update(d, id,
            [status |-> COMPLETED,
             costTotal |-> ToNumber(data.costTotal),
             euroPerKg |-> ToNumber(data.euroPerKg),
             outputJson |-> data.outputJson])

markCompleted(d, id, data) ==
    LET euroPerKg == ToNumber(data.euroPerKg)
        isAbsurdValue == GtInt(euroPerKg, AbsurdLimit)
    IN  IF LeZero(ToNumber(data.costTotal))
        THEN markError(d, id, InvalidCostMsg)
        ELSE IF DecimalThrows(data.costTotal) \/ DecimalThrows(data.euroPerKg)
        THEN Throw(d, DecimalErrorMsg)
        ELSE IF id \in DOMAIN d
                /\ (Unstorable(data.costTotal) \/ Unstorable(data.euroPerKg))
                /\ ~storeAcceptsNaN
        THEN Throw(d, StoreRejectMsg)
        ELSE Update(d, id,
                [status |-> COMPLETED,
                 costTotal |-> ToNumber(data.costTotal),
                 euroPerKg |-> ToNumber(data.euroPerKg),
                 outputJson |-> data.outputJson,
                 errorMessage |-> IF isAbsurdValue THEN WarningMsg ELSE NoMsg])

getPredictionById(d, id) == id \in DOMAIN d

(***************************************************************************)
(* Inputs.                                                                 *)
(***************************************************************************)
Users == {"u1"}

\* volume_ton of a create request body
VolumeInputs == {Num(0, 1), Num(1, 1), Num(1000, 1)}

\* the cost a remote response may carry
RemoteCosts ==
    {Undefined, NonNumeric, Num(0, 1), Num(-5, 1), Num(2500, 1), Num(15000000, 1)}

\* bodies of a 2xx answer of the remote service: { cost, estimated_cost, cost_total }
RemoteBodies ==
    {[cost |-> c, estimated_cost |-> Undefined, cost_total |-> c] : c \in RemoteCosts}
    \cup {[cost |-> Undefined, estimated_cost |-> Num(2500, 1), cost_total |-> Undefined]}

NoBody == [cost |-> Undefined, estimated_cost |-> Undefined, cost_total |-> Undefined]

\* what a raw fetch of the backend can end in
FetchOutcomes ==
    {[kind |-> "ok", body |-> b] : b \in RemoteBodies}
    \cup {[kind |-> k, body |-> NoBody] : k \in {"http_error", "network_error"}}

\* what mlClient.predict can end in: fetchWithTimeout adds the abort on timeout
PredictOutcomes == FetchOutcomes \cup {[kind |-> "timeout", body |-> NoBody]}

\* cost_total of a webhook output, a number when present (z.number().optional())
HookCosts == {Undefined, Num(0, 1), Num(2500, 1), Num(15000000, 1)}

HookPayload(valid, id, status, hasOutput, cost, error) ==
    [valid |-> valid, prediction_id |-> id, status |-> status,
     hasOutput |-> hasOutput, cost_total |-> cost, error |-> error]

\* webhook bodies: refused by the schema, error with and without a message,
\* completed without an output, completed with an output
HookPayloads ==
    {HookPayload(FALSE, id, "error", FALSE, Undefined, "undefined") : id \in JobIds}
    \cup {HookPayload(TRUE, id, "error", FALSE, Undefined, e) :
            id \in JobIds, e \in {"undefined", "ML failure"}}
    \cup {HookPayload(TRUE, id, "completed", FALSE, Undefined, "undefined") : id \in JobIds}
    \cup {HookPayload(TRUE, id, "completed", TRUE, c, "undefined") :
            id \in JobIds, c \in HookCosts}

\* ML_WEBHOOK_SECRET
SharedSecret == "s3cret"

\* Authorization headers, as the words between single spaces (<<>>: no header)
AuthHeaders ==
    {<<>>, <<"Bearer">>, <<"Bearer", "wrong">>, <<"Bearer", "", SharedSecret>>,
     <<"Bearer", SharedSecret>>, <<"Bearer", SharedSecret, "x">>,
     <<"Basic", SharedSecret>>}

\* authHeader?.split(' ')[1] || ''
HeaderSecret(h) == IF Len(h) >= 2 THEN h[2] ELSE ""

\* secret !== ML_WEBHOOK_SECRET is false
SecretOk(h) == HeaderSecret(h) = SharedSecret

\* webhook requests [header, payload]: with the header "Bearer <secret>" every
\* body, with any other header one body of each status for every id
HookRequests ==
    {[header |-> <<"Bearer", SharedSecret>>, payload |-> p] : p \in HookPayloads}
    \cup {[header |-> h, payload |-> p] :
            h \in AuthHeaders,
            p \in {q \in HookPayloads : q.valid /\ q.cost_total = Undefined
                                           /\ q.error = "undefined"}}

\* the CreatePredictionInput the create route builds from a validated body with
\* output_currency EUR, lead_time_days 7, no fuel_index and taxes_pct 20
CreateInput(user, volume_ton) ==
    [userId |-> user,
     volumeTon |-> volume_ton,
     currency |-> "EUR",
     inputJson |-> [volume_ton |-> volume_ton],
     leadTimeDays |-> Num(7, 1),
     fuelIndex |-> Undefined,
     taxMultiplier |-> Num(6, 5)]

\* createPredictionSchema: volume_ton: z.number().min(0.1).max(1000)
SchemaOk(v) == v.k = "num" /\ 10 * v.n >= v.d /\ v.n <= 1000 * v.d

(***************************************************************************)
(* The queue (BullMQ 'prediction').                                        *)
(***************************************************************************)
Attempts == 3
QConcurrency == 1
WConcurrency == 3

NoJob == [state |-> "none", attemptsMade |-> 0, proc |-> "none"]

Active(proc) == {j \in DOMAIN jobs : jobs[j].state = "active" /\ jobs[j].proc = proc}

\* a queue that adds a job whether or not its id is held
QueueAdd_NoDedupe(q, id) ==
    [q EXCEPT ![id] = [state |-> "waiting", attemptsMade |-> 0, proc |-> "none"]]

\* queue.add('process', { predictionId }, { jobId }): an existing job id is not added again
QueueAdd(q, id) ==
    IF q[id].state # "none"
    THEN q
    ELSE [q EXCEPT ![id] = [state |-> "waiting", attemptsMade |-> 0, proc |-> "none"]]

\* the processor returned: removeOnComplete: true
JobCompleted(q, id) == [q EXCEPT ![id] = NoJob]

\* a queue that allows one attempt more than configured
JobFailed_OneMore(q, id) ==
    [q EXCEPT ![id] =
        [state |-> IF q[id].attemptsMade + 1 <= Attempts THEN "waiting" ELSE "failed",
         attemptsMade |-> q[id].attemptsMade + 1,
         proc |-> "none"]]

\* the processor threw: retried until attempts are used up, then kept as failed
JobFailed(q, id) ==
    [q EXCEPT ![id] =
        [state |-> IF q[id].attemptsMade + 1 < Attempts THEN "waiting" ELSE "failed",
         attemptsMade |-> q[id].attemptsMade + 1,
         proc |-> "none"]]

\* the broker hands a waiting job to a processor
JobClaimed(q, id, proc) == [q EXCEPT ![id].state = "active", ![id].proc = proc]

(***************************************************************************)
(* The job processors.  Each is cut at its remote call: the part up to the *)
(* call, and the part from the call's outcome to the end of the attempt.   *)
(***************************************************************************)
FetchFailedMsg == "fetch failed"
TimeoutMsg == "Request timeout after 25000ms"
PythonApiErrorMsg == "Python API error: 500 - Internal Server Error"
MlApiErrorMsg == "ML API error: 500 Internal Server Error"
BackendErrorMsg == "Backend error: 500 - Internal Server Error"
NotFoundMsg == "Prediction not found"
UnknownMlErrorMsg == "Unknown error from ML service"

\* a catch that records the error and does not throw it again
CatchMarkError_Swallow(r, id) ==
    IF r.thrown = NoThrow
    THEN r
    ELSE LET c == markError(r.db, id, r.thrown)
         IN  IF c.thrown = NoThrow THEN Ret(c.db) ELSE Throw(c.db, c.thrown)

\* catch (error) { await predictionService.markError(id, message); throw error }
CatchMarkError(r, id) ==
    IF r.thrown = NoThrow
    THEN r
    ELSE LET c == markError(r.db, id, r.thrown)
         IN  Throw(c.db, IF c.thrown = NoThrow THEN r.thrown ELSE c.thrown)

\* queue.ts processor, steps 1-2
QProcessStart(d, id) ==
    CatchMarkError(
        IF ~getPredictionById(d, id)
        THEN Throw(d, NotFoundMsg)
        ELSE markProcessing(d, id),
        id)

\* the queue.ts processor dividing the cost by the volume in tonnes
QProcessAfterFetch_PerTon(d, id, o) ==
    CatchMarkError(
        CASE o.kind = "network_error" -> Throw(d, FetchFailedMsg)
          [] o.kind = "http_error" -> Throw(d, PythonApiErrorMsg)
          [] OTHER ->
             markCompleted(d, id,
                [costTotal |-> ToNumber(o.body.cost),
                 euroPerKg |-> JsDiv(ToNumber(o.body.cost), ToNumber(d[id].volumeTon)),
                 outputJson |-> "json"]),
        id)

\* queue.ts processor, steps 4-5 and the catch
QProcessAfterFetch(d, id, o) ==
    CatchMarkError(
        CASE o.kind = "network_error" -> Throw(d, FetchFailedMsg)
          [] o.kind = "http_error" -> Throw(d, PythonApiErrorMsg)
          [] OTHER ->
             LET totalCost == ToNumber(o.body.cost)
                 volumeTon == ToNumber(d[id].volumeTon)
                 volumeKg == JsMul(volumeTon, Num(1000, 1))
                 costPerKg == JsDiv(totalCost, volumeKg)
             IN  markCompleted(d, id,
                    [costTotal |-> totalCost,
                     euroPerKg |-> costPerKg,
                     outputJson |-> "json"]),
        id)

\* predictionWorker.ts processor, step 1
WProcessStart(d, id) ==
    CatchMarkError(markProcessing(d, id), id)

\* the predictionWorker.ts processor taking the volume as kilograms
WProcessAfterPredict_NoKg(d, id, o) ==
    CatchMarkError(
        CASE o.kind = "timeout" -> Throw(d, TimeoutMsg)
          [] o.kind = "network_error" -> Throw(d, FetchFailedMsg)
          [] o.kind = "http_error" -> Throw(d, MlApiErrorMsg)
          [] OTHER ->
             markCompleted(d, id,
                [costTotal |-> o.body.cost_total,
                 euroPerKg |-> JsDiv(o.body.cost_total, ToNumber(d[id].volumeTon)),
                 outputJson |-> "json"]),
        id)

\* predictionWorker.ts processor, steps 3-5 and the catch
WProcessAfterPredict(d, id, o) ==
    CatchMarkError(
        CASE o.kind = "timeout" -> Throw(d, TimeoutMsg)
          [] o.kind = "network_error" -> Throw(d, FetchFailedMsg)
          [] o.kind = "http_error" -> Throw(d, MlApiErrorMsg)
          [] OTHER ->
             LET costTotal == o.body.cost_total
                 volumeTonNumber == ToNumber(d[id].volumeTon)
                 euroPerKg == JsDiv(costTotal, JsMul(volumeTonNumber, Num(1000, 1)))
             IN  markCompleted(d, id,
                    [costTotal |-> costTotal,
                     euroPerKg |-> euroPerKg,
                     outputJson |-> "json"]),
        id)

(***************************************************************************)
(* The create route after its remote call, and the webhook handler.  Both  *)
(* give [db, status]: the table after the handler and the HTTP status.     *)
(***************************************************************************)
Resp(d, code) == [db |-> d, status |-> code]

\* POST /api/predictions, synchronous flow from the fetch outcome on
PostSyncAfterFetch(d, id, o) ==
    CASE o.kind = "network_error" -> Resp(d, 502)
      [] o.kind = "http_error" -> Resp(markError(d, id, BackendErrorMsg).db, 502)
      [] OTHER ->
         LET volumeKg == JsMul(d[id].inputJson.volume_ton, Num(1000, 1))
             costTotal == JsOr(JsOr(o.body.cost, o.body.estimated_cost), Num(0, 1))
             unitCost == IF GtZero(volumeKg) THEN JsDiv(costTotal, volumeKg) ELSE Num(0, 1)
             r == markCompleted(d, id,
                    [costTotal |-> costTotal,
                     euroPerKg |-> unitCost,
                     outputJson |-> "json"])
         IN  Resp(r.db, IF r.thrown = NoThrow THEN 200 ELSE 502)

\* the webhook handler acknowledging a prediction it does not find
WebhookPost_AckUnknown(d, secretOk, p) ==
    IF ~secretOk THEN Resp(d, 401)
    ELSE IF ~p.valid THEN Resp(d, 400)
    ELSE IF ~getPredictionById(d, p.prediction_id) THEN Resp(d, 200)
    ELSE IF p.status = "completed" /\ p.hasOutput
    THEN LET costTotal == JsOr(p.cost_total, Num(0, 1))
             volumeTonNumber == ToNumber(d[p.prediction_id].volumeTon)
             euroPerKg == JsDiv(costTotal, JsMul(volumeTonNumber, Num(1000, 1)))
             r == markCompleted(d, p.prediction_id,
                    [costTotal |-> costTotal,
                     euroPerKg |-> euroPerKg,
                     outputJson |-> "json"])
         IN  Resp(r.db, IF r.thrown = NoThrow THEN 200 ELSE 500)
    ELSE IF p.status = "error"
    THEN LET r == markError(d, p.prediction_id,
                    IF p.error = "undefined" THEN UnknownMlErrorMsg ELSE p.error)
         IN  Resp(r.db, IF r.thrown = NoThrow THEN 200 ELSE 500)
    ELSE Resp(d, 200)

\* POST of the ML webhook
WebhookPost(d, secretOk, p) ==
    IF ~secretOk THEN Resp(d, 401)
    ELSE IF ~p.valid THEN Resp(d, 400)
    ELSE IF ~getPredictionById(d, p.prediction_id) THEN Resp(d, 404)
    ELSE IF p.status = "completed" /\ p.hasOutput
    THEN LET costTotal == JsOr(p.cost_total, Num(0, 1))
             volumeTonNumber == ToNumber(d[p.prediction_id].volumeTon)
             euroPerKg == JsDiv(costTotal, JsMul(volumeTonNumber, Num(1000, 1)))
             r == markCompleted(d, p.prediction_id,
                    [costTotal |-> costTotal,
                     euroPerKg |-> euroPerKg,
                     outputJson |-> "json"])
         IN  Resp(r.db, IF r.thrown = NoThrow THEN 200 ELSE 500)
    ELSE IF p.status = "error"
    THEN LET r == markError(d, p.prediction_id,
                    IF p.error = "undefined" THEN UnknownMlErrorMsg ELSE p.error)
         IN  Resp(r.db, IF r.thrown = NoThrow THEN 200 ELSE 500)
    ELSE Resp(d, 200)

\* the get handler answering every authenticated caller
GetPrediction_AnyCaller(d, user, id) ==
    IF ~getPredictionById(d, id)
    THEN [code |-> 404, status |-> "none", euroPerKg |-> Null, costTotal |-> Null,
          error |-> NoMsg]
    ELSE [code |-> 200,
          status |-> d[id].status,
          euroPerKg |-> IF d[id].status = COMPLETED THEN d[id].euroPerKg ELSE Null,
          costTotal |-> IF d[id].status = COMPLETED THEN d[id].costTotal ELSE Null,
          error |-> d[id].errorMessage]

\* GET /api/predictions/{id} for an authenticated caller [id, role]
GetPrediction(d, user, id) ==
    IF ~getPredictionById(d, id)
    THEN [code |-> 404, status |-> "none", euroPerKg |-> Null, costTotal |-> Null,
          error |-> NoMsg]
    ELSE IF user.role # "ADMIN" /\ d[id].userId # user.id
    THEN [code |-> 403, status |-> "none", euroPerKg |-> Null, costTotal |-> Null,
          error |-> NoMsg]
    ELSE [code |-> 200,
          status |-> d[id].status,
          euroPerKg |-> IF d[id].status = COMPLETED THEN d[id].euroPerKg ELSE Null,
          costTotal |-> IF d[id].status = COMPLETED THEN d[id].costTotal ELSE Null,
          error |-> d[id].errorMessage]

\* the caller a record's owner makes
Owner(d, id) == [id |-> d[id].userId, role |-> "USER"]

\* the authenticated callers of a get: the creator, another user, an administrator
Callers ==
    {[id |-> "u1", role |-> "USER"], [id |-> "u2", role |-> "USER"],
     [id |-> "u3", role |-> "ADMIN"]}

NoGet == [caller |-> [id |-> "none", role |-> "none"], id |-> 0,
          resp |-> [code |-> 0, status |-> "none", euroPerKg |-> Null,
                    costTotal |-> Null, error |-> NoMsg]]

NoCall == [op |-> "none", id |-> 0, costTotal |-> Null, euroPerKg |-> Null,
           volumeTon |-> Null, thrown |-> NoThrow, before |-> NoMsg, was |-> "none"]

(***************************************************************************)
(* MLClient.  An invocation is [op, pc, sent, thrown]: the method, where   *)
(* it stands, the HTTP requests it has issued, and the error it threw.     *)
(***************************************************************************)
ClientOps == {"predict", "train", "listModels"}

ClientIdle == [op |-> "none", pc |-> "idle", sent |-> 0, thrown |-> NoThrow]

\* predict / train / listModels up to the fetch inside fetchWithTimeout
ClientCall(op) == [op |-> op, pc |-> "fetch", sent |-> 1, thrown |-> NoThrow]

\* a client that issues the request once more after a first failure
ClientAfterFetch_Retry(c, o) ==
    IF o.kind # "ok" /\ c.sent < 2
    THEN [c EXCEPT !.sent = @ + 1]
    ELSE CASE o.kind = "timeout" -> [c EXCEPT !.pc = "thrown", !.thrown = TimeoutMsg]
           [] o.kind = "http_error" -> [c EXCEPT !.pc = "thrown", !.thrown = MlApiErrorMsg]
           [] o.kind = "network_error" -> [c EXCEPT !.pc = "thrown", !.thrown = FetchFailedMsg]
           [] OTHER -> [c EXCEPT !.pc = "returned"]

\* fetchWithTimeout from the end of its fetch, and the method's return or rethrow
ClientAfterFetch(c, o) ==
    CASE o.kind = "timeout" -> [c EXCEPT !.pc = "thrown", !.thrown = TimeoutMsg]
      [] o.kind = "http_error" -> [c EXCEPT !.pc = "thrown", !.thrown = MlApiErrorMsg]
      [] o.kind = "network_error" -> [c EXCEPT !.pc = "thrown", !.thrown = FetchFailedMsg]
      [] OTHER -> [c EXCEPT !.pc = "returned"]

(***************************************************************************)
(* The system: create requests, the queue's deliveries, webhook requests.  *)
(***************************************************************************)
\* number of workers initializePredictionWorker may have built
MaxWWorkers == 1
\* number of times the clock advances
MaxClock == 1

Init ==
    /\ db = <<>>
    /\ useQueue \in BOOLEAN
    /\ storeAcceptsNaN \in BOOLEAN
    /\ post = [i \in Ids |-> "none"]
    /\ jobs = [i \in JobIds |-> NoJob]
    /\ qWorker = FALSE
    /\ wWorkers = 0
    /\ runs = [i \in JobIds |-> 0]
    /\ hookResp = 0
    /\ last = NoCall
    /\ client = ClientIdle
    /\ got = NoGet
    /\ now = 0

\* POST /api/predictions up to the first await after createPrediction, the store
\* handing out the ids of ids; a body the schema refuses is answered 400 and
\* nothing is created
PostCreateIn(ids, user, volume_ton) ==
    /\ NextId(db) \in ids
    /\ LET r == IF SchemaOk(volume_ton)
                THEN createPrediction(db, CreateInput(user, volume_ton))
                ELSE Throw(db, "Validation error")
       IN  /\ db' = r.db
           /\ post' = IF r.thrown = NoThrow
                      THEN [post EXCEPT ![NextId(db)] =
                              IF useQueue THEN "enqueue" ELSE "fetch"]
                      ELSE post
    /\ UNCHANGED <<useQueue, storeAcceptsNaN, jobs, qWorker, wWorkers, runs, hookResp, last,
                   client, got, now>>

PostCreate(user, volume_ton) == PostCreateIn(Ids, user, volume_ton)

\* enqueuePrediction(id)
enqueuePrediction(id, brokerUp) ==
    /\ qWorker' = TRUE
    /\ jobs' = IF brokerUp THEN QueueAdd(jobs, id) ELSE jobs

\* queued flow: await enqueuePrediction(prediction.id), then 202, or 500 when it throws
PostEnqueue(id, brokerUp) ==
    /\ post[id] = "enqueue"
    /\ enqueuePrediction(id, brokerUp)
    /\ post' = [post EXCEPT ![id] = IF brokerUp THEN "r202" ELSE "r500"]
    /\ UNCHANGED <<db, useQueue, storeAcceptsNaN, wWorkers, runs, hookResp, last, client, got, now>>

\* synchronous flow: the fetch ends, the record is settled, the response is sent
PostSyncResponse(id, o) ==
    /\ post[id] = "fetch"
    /\ LET r == PostSyncAfterFetch(db, id, o)
       IN  /\ db' = r.db
           /\ post' = [post EXCEPT ![id] = IF r.status = 200 THEN "r200" ELSE "r502"]
    /\ UNCHANGED <<useQueue, storeAcceptsNaN, jobs, qWorker, wWorkers, runs, hookResp, last, client, got, now>>

\* initializePredictionWorker()
InitializePredictionWorker ==
    /\ wWorkers < MaxWWorkers
    /\ wWorkers' = wWorkers + 1
    /\ UNCHANGED <<db, useQueue, storeAcceptsNaN, post, jobs, qWorker, runs, hookResp, last, client, got, now>>

\* a waiting job is delivered to the queue.ts worker, which runs up to its fetch
QStart(id) ==
    /\ jobs[id].state = "waiting"
    /\ qWorker
    /\ Cardinality(Active("Q")) < QConcurrency
    /\ runs[id] < MaxRuns
    /\ LET r == QProcessStart(db, id)
       IN  /\ db' = r.db
           /\ jobs' = IF r.thrown = NoThrow
                      THEN JobClaimed(jobs, id, "Q")
                      ELSE JobFailed(jobs, id)
    /\ UNCHANGED <<useQueue, storeAcceptsNaN, post, qWorker, wWorkers, runs, hookResp, last, client, got, now>>

\* the fetch of the queue.ts processor ends and the attempt finishes
QFinish(id, o) ==
    /\ jobs[id].state = "active"
    /\ jobs[id].proc = "Q"
    /\ LET r == QProcessAfterFetch(db, id, o)
       IN  /\ db' = r.db
           /\ jobs' = IF r.thrown = NoThrow
                      THEN JobCompleted(jobs, id)
                      ELSE JobFailed(jobs, id)
           /\ runs' = IF r.thrown = NoThrow
                      THEN [runs EXCEPT ![id] = @ + 1]
                      ELSE runs
    /\ UNCHANGED <<useQueue, storeAcceptsNaN, post, qWorker, wWorkers, hookResp, last, client, got, now>>

\* a waiting job is delivered to a predictionWorker.ts worker, which runs up to predict
WStart(id) ==
    /\ jobs[id].state = "waiting"
    /\ Cardinality(Active("W")) < WConcurrency * wWorkers
    /\ runs[id] < MaxRuns
    /\ LET r == WProcessStart(db, id)
       IN  /\ db' = r.db
           /\ jobs' = IF r.thrown = NoThrow
                      THEN JobClaimed(jobs, id, "W")
                      ELSE JobFailed(jobs, id)
    /\ UNCHANGED <<useQueue, storeAcceptsNaN, post, qWorker, wWorkers, runs, hookResp, last, client, got, now>>

\* mlClient.predict of the predictionWorker.ts processor ends and the attempt finishes
WFinish(id, o) ==
    /\ jobs[id].state = "active"
    /\ jobs[id].proc = "W"
    /\ LET r == WProcessAfterPredict(db, id, o)
       IN  /\ db' = r.db
           /\ jobs' = IF r.thrown = NoThrow
                      THEN JobCompleted(jobs, id)
                      ELSE JobFailed(jobs, id)
           /\ runs' = IF r.thrown = NoThrow
                      THEN [runs EXCEPT ![id] = @ + 1]
                      ELSE runs
    /\ UNCHANGED <<useQueue, storeAcceptsNaN, post, qWorker, wWorkers, hookResp, last, client, got, now>>

\* one webhook request, handled to its response
Webhook(secretOk, p) ==
    /\ LET r == WebhookPost(db, secretOk, p)
       IN  /\ db' = r.db
           /\ hookResp' = r.status
    /\ UNCHANGED <<useQueue, storeAcceptsNaN, post, jobs, qWorker, wWorkers, runs, last, client, got, now>>

Next ==
    \/ \E u \in Users, v \in VolumeInputs : PostCreate(u, v)
    \/ \E id \in Ids, up \in BOOLEAN : PostEnqueue(id, up)
    \/ \E id \in Ids, o \in FetchOutcomes : PostSyncResponse(id, o)
    \/ InitializePredictionWorker
    \/ \E id \in JobIds : QStart(id)
    \/ \E id \in JobIds, o \in FetchOutcomes : QFinish(id, o)
    \/ \E id \in JobIds : WStart(id)
    \/ \E id \in JobIds, o \in PredictOutcomes : WFinish(id, o)
    \/ \E h \in HookRequests : Webhook(SecretOk(h.header), h.payload)

Spec == Init /\ [][Next]_vars

(***************************************************************************)
(* The system with requests, workers and remote calls that go on: a create *)
(* request that reached its enqueue step carries it out, a waiting job is  *)
(* delivered while a worker has a free slot, and a remote call made by a   *)
(* processor returns or fails.                                             *)
(***************************************************************************)
Fairness ==
    \A id \in JobIds :
        /\ WF_vars(id \in Ids /\ \E up \in BOOLEAN : PostEnqueue(id, up))
        /\ WF_vars(QStart(id) \/ WStart(id))
        /\ WF_vars(\E o \in FetchOutcomes : QFinish(id, o))
        /\ WF_vars(\E o \in PredictOutcomes : WFinish(id, o))

LiveSpec == Init /\ [][Next]_vars /\ Fairness

(***************************************************************************)
(* The system when no job is delivered a second time.                      *)
(***************************************************************************)
Redelivery ==
    \E id \in JobIds :
        /\ jobs[id].state = "waiting"
        /\ jobs[id].attemptsMade > 0
        /\ jobs'[id] # jobs[id]

NextNoRedelivery == Next /\ ~Redelivery

NoRedeliverySpec == Init /\ [][NextNoRedelivery]_vars

(***************************************************************************)
(* The system with enqueuePrediction also called by other code of the      *)
(* process, for any stored prediction and at any time.                     *)
(***************************************************************************)
EnqueueDirect(id) ==
    /\ useQueue
    /\ id \in DOMAIN db
    /\ enqueuePrediction(id, TRUE)
    /\ UNCHANGED <<db, useQueue, storeAcceptsNaN, post, wWorkers, runs, hookResp, last, client, got, now>>

NextQueue ==
    \/ Next
    \/ \E id \in Ids : EnqueueDirect(id)

QueueSpec == Init /\ [][NextQueue]_vars

(***************************************************************************)
(* The system with enqueuePrediction also called with an id that no        *)
(* record has.                                                             *)
(***************************************************************************)
EnqueueUnknown ==
    /\ useQueue
    /\ enqueuePrediction(UnknownId, TRUE)
    /\ UNCHANGED <<db, useQueue, storeAcceptsNaN, post, wWorkers, runs, hookResp, last, client, got, now>>

NextOrphan ==
    \/ Next
    \/ EnqueueUnknown

OrphanSpec == Init /\ [][NextOrphan]_vars

(***************************************************************************)
(* The system when the remote service never answers a call made by a job   *)
(* processor.  mlClient.predict aborts its request when its timer fires;   *)
(* the fetch of the queue.ts processor has no timer and no abort signal:   *)
(* it ends only if the runtime itself gives the request up, which nothing  *)
(* in the code brings about.                                               *)
(***************************************************************************)
\* the abort timer of fetchWithTimeout fires
WTimeout(id) == WFinish(id, [kind |-> "timeout", body |-> NoBody])

\* the runtime gives up the request of the queue.ts processor: fetch rejects
QRuntimeAbort(id) == QFinish(id, [kind |-> "network_error", body |-> NoBody])

NextStall ==
    \/ \E u \in Users, v \in VolumeInputs : PostCreate(u, v)
    \/ \E id \in Ids, up \in BOOLEAN : PostEnqueue(id, up)
    \/ \E id \in Ids, o \in FetchOutcomes : PostSyncResponse(id, o)
    \/ InitializePredictionWorker
    \/ \E id \in JobIds : QStart(id)
    \/ \E id \in JobIds : WStart(id)
    \/ \E h \in HookRequests : Webhook(SecretOk(h.header), h.payload)
    \/ \E id \in JobIds : WTimeout(id)
    \/ \E id \in JobIds : QRuntimeAbort(id)

\* a timer that was set fires
StallSpec ==
    /\ Init
    /\ [][NextStall]_vars
    /\ \A id \in JobIds : WF_vars(WTimeout(id))

(***************************************************************************)
(* The callers of the remote service outside the queue: the methods of     *)
(* MLClient, and the create route in its synchronous flow.                 *)
(***************************************************************************)
ClientInvoke(op) ==
    /\ client.pc # "fetch"
    /\ client' = ClientCall(op)
    /\ UNCHANGED <<db, useQueue, storeAcceptsNaN, post, jobs, qWorker, wWorkers, runs,
                   hookResp, last, got, now>>

ClientSettle(o) ==
    /\ client.pc = "fetch"
    /\ client' = ClientAfterFetch(client, o)
    /\ UNCHANGED <<db, useQueue, storeAcceptsNaN, post, jobs, qWorker, wWorkers, runs,
                   hookResp, last, got, now>>

NextClient ==
    \/ \E op \in ClientOps : ClientInvoke(op)
    \/ \E o \in PredictOutcomes : ClientSettle(o)
    \/ \E u \in Users, v \in VolumeInputs : PostCreate(u, v)
    \/ \E id \in Ids, o \in FetchOutcomes : PostSyncResponse(id, o)

ClientSpec == Init /\ [][NextClient]_vars

(***************************************************************************)
(* Gets by id, of predictions made and settled by the synchronous flow.    *)
(***************************************************************************)
Get(caller, id) ==
    /\ got' = [caller |-> caller, id |-> id, resp |-> GetPrediction(db, caller, id)]
    /\ UNCHANGED <<db, useQueue, storeAcceptsNaN, post, jobs, qWorker, wWorkers, runs,
                   hookResp, last, client, now>>

NextGet ==
    \/ \E u \in Users, v \in VolumeInputs : PostCreate(u, v)
    \/ \E id \in Ids, o \in FetchOutcomes : PostSyncResponse(id, o)
    \/ \E c \in Callers, id \in JobIds : Get(c, id)

GetSpec == Init /\ [][NextGet]_vars

(***************************************************************************)
(* The worker pool of one process with as many predictions as the two      *)
(* worker constructors give it slots: create requests of the queued flow   *)
(* and the deliveries of their jobs.                                       *)
(***************************************************************************)
PoolSlots == QConcurrency + WConcurrency * MaxWWorkers

PoolIds == 1..PoolSlots

PoolInit ==
    /\ db = <<>>
    /\ useQueue \in BOOLEAN
    /\ storeAcceptsNaN \in BOOLEAN
    /\ post = [i \in PoolIds |-> "none"]
    /\ jobs = [i \in PoolIds |-> NoJob]
    /\ qWorker = FALSE
    /\ wWorkers = 0
    /\ runs = [i \in PoolIds |-> 0]
    /\ hookResp = 0
    /\ last = NoCall
    /\ client = ClientIdle
    /\ got = NoGet
    /\ now = 0

NextPool ==
    \/ \E u \in Users : PostCreateIn(PoolIds, u, Num(1, 1))
    \/ \E id \in PoolIds : PostEnqueue(id, TRUE)
    \/ InitializePredictionWorker
    \/ \E id \in PoolIds : QStart(id)
    \/ \E id \in PoolIds : WStart(id)

PoolSpec == PoolInit /\ [][NextPool]_vars

(***************************************************************************)
(* PredictionService called directly, with arguments of every kind.        *)
(***************************************************************************)
SvcVolumes == {Num(-1, 1), Num(0, 1), Num(1, 1), Num(1000, 1), NonNumeric}
SvcCosts == {Num(-5, 1), Num(0, 1), Num(2500, 1), Undefined}
SvcEuros == {Num(0, 1), Num(5, 2), Num(15000, 1)}
SvcMessages == {"remote failed"}

\* a call with its arguments, its outcome, and the errorMessage the record of id
\* held when the call was made
Call(op, id, volumeTon, costTotal, euroPerKg, thrown) ==
    [op |-> op, id |-> id, costTotal |-> costTotal, euroPerKg |-> euroPerKg,
     volumeTon |-> volumeTon, thrown |-> thrown,
     before |-> IF id \in DOMAIN db THEN db[id].errorMessage ELSE NoMsg,
     was |-> IF id \in DOMAIN db THEN db[id].status ELSE "none"]

SvcCreatePrediction(user, volumeTon) ==
    LET r == createPrediction(db, CreateInput(user, volumeTon))
    IN  /\ r.thrown = NoThrow => NextId(db) \in Ids
        /\ db' = r.db
        /\ last' = Call("createPrediction", 0, volumeTon, Null, Null, r.thrown)
        /\ UNCHANGED <<useQueue, storeAcceptsNaN, post, jobs, qWorker, wWorkers, runs,
                       hookResp, client, got, now>>

SvcMarkProcessing(id) ==
    LET r == markProcessing(db, id)
    IN  /\ db' = r.db
        /\ last' = Call("markProcessing", id, Null, Null, Null, r.thrown)
        /\ UNCHANGED <<useQueue, storeAcceptsNaN, post, jobs, qWorker, wWorkers, runs,
                       hookResp, client, got, now>>

SvcMarkCompleted(id, costTotal, euroPerKg) ==
    LET r == markCompleted(db, id,
                [costTotal |-> costTotal, euroPerKg |-> euroPerKg, outputJson |-> "json"])
    IN  /\ db' = r.db
        /\ last' = Call("markCompleted", id, Null, costTotal, euroPerKg, r.thrown)
        /\ UNCHANGED <<useQueue, storeAcceptsNaN, post, jobs, qWorker, wWorkers, runs,
                       hookResp, client, got, now>>

SvcMarkError(id, errorMessage) ==
    LET r == markError(db, id, errorMessage)
    IN  /\ db' = r.db
        /\ last' = Call("markError", id, Null, Null, Null, r.thrown)
        /\ UNCHANGED <<useQueue, storeAcceptsNaN, post, jobs, qWorker, wWorkers, runs,
                       hookResp, client, got, now>>

\* time passes between two calls
Tick ==
    /\ now < MaxClock
    /\ now' = now + 1
    /\ UNCHANGED <<db, useQueue, storeAcceptsNaN, post, jobs, qWorker, wWorkers, runs,
                   hookResp, last, client, got>>

NextSvc ==
    \/ Tick
    \/ \E u \in Users, v \in SvcVolumes : SvcCreatePrediction(u, v)
    \/ \E id \in JobIds : SvcMarkProcessing(id)
    \/ \E id \in JobIds, c \in SvcCosts, e \in SvcEuros : SvcMarkCompleted(id, c, e)
    \/ \E id \in JobIds, m \in SvcMessages : SvcMarkError(id, m)

SvcSpec == Init /\ [][NextSvc]_vars

(***************************************************************************)
(* Properties.                                                             *)
(***************************************************************************)
Terminal == {COMPLETED, ERROR}

ForwardSteps ==
    {<<PENDING, PROCESSING>>, <<PROCESSING, COMPLETED>>, <<PROCESSING, ERROR>>,
     <<PENDING, COMPLETED>>, <<PENDING, ERROR>>}

\* C1: every change of a prediction's status is one of PENDING->PROCESSING,
\* PROCESSING->COMPLETED, PROCESSING->ERROR, PENDING->COMPLETED, PENDING->ERROR
C1_StatusOnlyForward ==
    [][\A id \in DOMAIN db :
          db'[id].status # db[id].status
              => <<db[id].status, db'[id].status>> \in ForwardSteps]_vars

\* C2: when no job is delivered a second time, a prediction that is COMPLETED or
\* ERROR is never PENDING or PROCESSING afterwards
C2_TerminalStaysTerminal ==
    [][\A id \in DOMAIN db :
          db[id].status \in Terminal => db'[id].status \in Terminal]_vars

\* C3: costTotal, euroPerKg and outputJson are present exactly on the predictions
\* whose status is COMPLETED
C3_ResultIffCompleted ==
    \A id \in DOMAIN db :
        /\ (db[id].costTotal # Null) <=> (db[id].status = COMPLETED)
        /\ (db[id].euroPerKg # Null) <=> (db[id].status = COMPLETED)
        /\ (db[id].outputJson # "null") <=> (db[id].status = COMPLETED)

\* C4: every COMPLETED prediction has costTotal > 0
C4_CompletedCostPositive ==
    \A id \in DOMAIN db :
        db[id].status = COMPLETED => GtZero(db[id].costTotal)

WorkerSucceedsWith2500(id) ==
    \E o \in FetchOutcomes :
        /\ o.kind = "ok"
        /\ o.body.cost = Num(2500, 1)
        /\ o.body.cost_total = Num(2500, 1)
        /\ (QFinish(id, o) \/ WFinish(id, o))

Scenario2(id, euroPerKg) ==
    (/\ useQueue
     /\ id \in DOMAIN db
     /\ db[id].volumeTon = Num(1000, 1)
     /\ WorkerSucceedsWith2500(id))
        => LET seen == GetPrediction(db', Owner(db', id), id)
           IN  /\ seen.code = 200
               /\ seen.status = COMPLETED
               /\ seen.euroPerKg = euroPerKg

\* C6 as stated: queued mode, volumeTon = 1000, the worker's remote call succeeds
\* with costTotal = 2500: a get then returns COMPLETED and euroPerKg = 2.5
C6_Stated_EuroPerKg2500 ==
    [][\A id \in Ids : Scenario2(id, Num(5, 2))]_vars

\* C6 as amended: queued mode, volumeTon = 1000, the worker's remote call succeeds
\* with costTotal = 2500: a get then returns COMPLETED and euroPerKg = 0.0025
C6_EuroPerKgOfScenario2 ==
    [][\A id \in Ids : Scenario2(id, Num(1, 400))]_vars

C6_Witness ==
    \E id \in DOMAIN db :
        /\ useQueue
        /\ runs[id] = 1
        /\ db[id].volumeTon = Num(1000, 1)
        /\ db[id].costTotal = Num(2500, 1)
        /\ GetPrediction(db, Owner(db, id), id).status = COMPLETED
        /\ GetPrediction(db, Owner(db, id), id).euroPerKg = Num(1, 400)

\* C7 as stated: a prediction id that is enqueued twice is executed by a worker
\* exactly once: no second attempt of it runs to a settlement
C7_Stated_OneExecution ==
    \A id \in Ids : runs[id] <= 1

\* an enqueue of id: the create request's, or a direct call
Enqueues(id) ==
    \/ EnqueueDirect(id)
    \/ \E up \in BOOLEAN : PostEnqueue(id, up)

\* C7 as amended: while the queue holds a job of a prediction id (waiting, active or
\* kept as failed) another enqueue of that id leaves the queue as it is, and a job
\* is handed to a processor only when it is waiting, never while an attempt of it
\* is running
C7_CoalescedWhileHeld ==
    [][\A id \in Ids :
          /\ (Enqueues(id) /\ jobs[id].state # "none") => jobs' = jobs
          /\ (jobs'[id].state = "active" /\ jobs[id] # jobs'[id])
                => jobs[id].state = "waiting"]_vars

C7_Witness ==
    \E id \in Ids :
        /\ post[id] = "enqueue"
        /\ jobs[id].state = "active"

\* C8: in both flows the record exists with status PENDING when it is created,
\* before the remote call is made and before the job is enqueued, and a get by id
\* finds it for as long as the request, the remote call or the job goes on
C8_PendingBeforeDispatch ==
    /\ [][\A id \in Ids :
            (id \notin DOMAIN db /\ id \in DOMAIN db')
                => /\ db'[id].status = PENDING
                   /\ post[id] = "none"
                   /\ post'[id] \in {"enqueue", "fetch"}
                   /\ jobs'[id].state = "none"]_vars
    /\ [](\A id \in Ids :
            (post[id] # "none" \/ jobs[id].state # "none")
                => /\ id \in DOMAIN db
                   /\ GetPrediction(db, Owner(db, id), id).code = 200)

C8_Witness ==
    \E id \in DOMAIN db :
        /\ post[id] = "fetch"
        /\ GetPrediction(db, Owner(db, id), id).status = PENDING

\* C9: createPrediction with volumeTon <= 0 throws and the stored predictions are
\* the same after the call
C9_NonPositiveVolumeRejected ==
    [][(last'.op = "createPrediction" /\ LeZero(ToNumber(last'.volumeTon)))
          => /\ last'.thrown = VolumeMsg
             /\ db' = db]_vars

C9_Witness ==
    /\ last.op = "createPrediction"
    /\ LeZero(ToNumber(last.volumeTon))
    /\ last.thrown = VolumeMsg
    /\ DOMAIN db # {}

\* C10: markCompleted of a stored prediction with costTotal <= 0 leaves it ERROR with
\* the message "Invalid cost total: must be greater than 0" and does not write
\* costTotal, euroPerKg or outputJson
C10_InvalidCostSettlesError ==
    [][(/\ last'.op = "markCompleted"
        /\ last'.id \in DOMAIN db
        /\ LeZero(ToNumber(last'.costTotal)))
          => /\ db'[last'.id].status = ERROR
             /\ db'[last'.id].errorMessage = InvalidCostMsg
             /\ db'[last'.id].costTotal = db[last'.id].costTotal
             /\ db'[last'.id].euroPerKg = db[last'.id].euroPerKg
             /\ db'[last'.id].outputJson = db[last'.id].outputJson
             /\ last'.thrown = NoThrow]_vars

C10_Witness ==
    /\ last.op = "markCompleted"
    /\ last.id \in DOMAIN db
    /\ LeZero(ToNumber(last.costTotal))
    /\ db[last.id].status = ERROR
    /\ db[last.id].errorMessage = InvalidCostMsg
    /\ db[last.id].costTotal = Num(2500, 1)

\* C11: markCompleted of a stored prediction with costTotal > 0 leaves it COMPLETED;
\* with euroPerKg > 10000 its errorMessage is the advisory warning, with
\* euroPerKg <= 10000 its errorMessage is absent, whatever message (a warning or
\* an ERROR message) the record held before
C11_WarningSetThenCleared ==
    [][(/\ last'.op = "markCompleted"
        /\ last'.id \in DOMAIN db
        /\ GtZero(ToNumber(last'.costTotal))
        /\ ToNumber(last'.euroPerKg).k = "num")
          => /\ last'.thrown = NoThrow
             /\ db'[last'.id].status = COMPLETED
             /\ db'[last'.id].errorMessage =
                    IF GtInt(ToNumber(last'.euroPerKg), AbsurdLimit)
                    THEN WarningMsg ELSE NoMsg]_vars

C11_Witness ==
    /\ last.op = "markCompleted"
    /\ last.id \in DOMAIN db
    /\ last.before = WarningMsg
    /\ GtZero(ToNumber(last.costTotal))
    /\ ~GtInt(ToNumber(last.euroPerKg), AbsurdLimit)
    /\ db[last.id].status = COMPLETED
    /\ db[last.id].errorMessage = NoMsg

\* a job of id is handed to one of the two processors
Delivered(id) == QStart(id) \/ WStart(id)

\* C12: when a job whose predictionId has no record is delivered, the attempt makes
\* no remote call, leaves the stored predictions as they are, and the job is
\* failed for good: it does not go back to waiting for another attempt
C12_UnknownIdFailsPermanently ==
    [][\A id \in JobIds :
          (id \notin DOMAIN db /\ Delivered(id))
              => /\ db' = db
                 /\ jobs'[id].state = "failed"]_vars

\* attempts of the job of id that were started: the failed ones and the running one
Deliveries(id) ==
    jobs[id].attemptsMade + (IF jobs[id].state = "active" THEN 1 ELSE 0)

\* C13: a job is handed to a processor at most 3 times: after its third failed
\* attempt it is kept as failed and never delivered, and the job of a prediction of
\* which an attempt returned normally is not delivered again
C13_AtMostThreeDeliveries ==
    /\ [](\A id \in JobIds :
            /\ Deliveries(id) <= Attempts
            /\ jobs[id].state = "failed" <=> jobs[id].attemptsMade = Attempts)
    /\ [][\A id \in JobIds :
            Delivered(id) => /\ jobs[id].attemptsMade < Attempts
                             /\ runs[id] = 0]_vars

C13_Witness ==
    \E id \in DOMAIN db :
        /\ jobs[id].state = "failed"
        /\ jobs[id].attemptsMade = Attempts
        /\ db[id].status = ERROR

\* an attempt of the job of id ends
AttemptEnds(id) == jobs[id].state = "active" /\ jobs'[id].state # "active"

\* C14: when the remote service never answers, every running attempt ends (its
\* worker slot is released), and when it ends the prediction is ERROR with a
\* message that says "timeout"
C14_StalledRemoteTimesOut ==
    /\ [][\A id \in Ids :
            AttemptEnds(id) => /\ db'[id].status = ERROR
                               /\ db'[id].errorMessage = TimeoutMsg]_vars
    /\ \A id \in Ids :
            (jobs[id].state = "active") ~> (jobs[id].state # "active")

\* C15: an invocation of predict, train or listModels has issued exactly one HTTP
\* request while it waits and when it has returned or thrown; a create request of
\* the synchronous flow makes its remote call once, and the end of that call,
\* whatever it is, ends the request: with 502 when the call failed
C15_SingleAttempt ==
    /\ [](client.op \in ClientOps => client.sent = 1)
    /\ [][\A id \in Ids :
            /\ (post'[id] = "fetch" /\ post[id] # "fetch") => post[id] = "none"
            /\ (post[id] = "fetch" /\ post'[id] # "fetch")
                  => post'[id] \in {"r200", "r502"}
            /\ \A o \in FetchOutcomes :
                  (o.kind # "ok" /\ PostSyncResponse(id, o)) => post'[id] = "r502"]_vars

C15_Witness ==
    /\ client.op = "predict"
    /\ client.pc = "thrown"
    /\ client.thrown = MlApiErrorMsg
    /\ client.sent = 1
    /\ \E id \in DOMAIN db : post[id] = "r502" /\ db[id].status = ERROR

\* C16: a webhook request whose Authorization header is not "Bearer <shared
\* secret>" is answered 401 and leaves every stored prediction as it was, whatever
\* its payload
C16_WrongSecretRejected ==
    [][\A h \in HookRequests :
          (h.header # <<"Bearer", SharedSecret>>
             /\ Webhook(SecretOk(h.header), h.payload))
              => /\ hookResp' = 401
                 /\ db' = db]_vars

\* C17: a webhook request that passes the credential check and the schema and names
\* a predictionId that has no record is answered 404, and the stored predictions
\* are the same after it
C17_UnknownPredictionNotFound ==
    [][\A h \in HookRequests :
          (/\ SecretOk(h.header)
           /\ h.payload.valid
           /\ h.payload.prediction_id \notin DOMAIN db
           /\ Webhook(SecretOk(h.header), h.payload))
              => /\ hookResp' = 404
                 /\ db' = db]_vars

C17_Witness ==
    /\ hookResp = 404
    /\ \E id \in DOMAIN db : db[id].status = PROCESSING

\* C18: when the create request of the synchronous flow is answered, the prediction
\* is COMPLETED or ERROR, and it is ERROR when the remote call failed (a non-2xx
\* answer, or no answer at all)
C18_SyncResponseTerminal ==
    [][\A id \in Ids : \A o \in FetchOutcomes :
          PostSyncResponse(id, o)
              => /\ db'[id].status \in Terminal
                 /\ o.kind # "ok" => db'[id].status = ERROR]_vars

\* C19: in queued mode, once the create request is answered 202 and while no
\* webhook request has been made, a get by the creator reports the status PENDING,
\* whatever the workers have done in between
C19_PendingAfterAccepted ==
    \A id \in DOMAIN db :
        (useQueue /\ post[id] = "r202" /\ hookResp = 0)
            => GetPrediction(db, Owner(db, id), id).status = PENDING

\* what a response that discloses nothing of a prediction looks like
Forbidden == [code |-> 403, status |-> "none", euroPerKg |-> Null, costTotal |-> Null,
              error |-> NoMsg]

\* C20: a get of a stored prediction by a caller who is neither its owner nor an
\* ADMIN is answered 403 with no field of the record, and a get is answered with
\* the record's data only when the caller is its owner or an ADMIN
C20_OnlyOwnerOrAdminReads ==
    [][\A c \in Callers : \A id \in DOMAIN db :
          Get(c, id)
              => LET allowed == c.role = "ADMIN" \/ c.id = db[id].userId
                 IN  /\ ~allowed => got'.resp = Forbidden
                     /\ got'.resp.code = 200 => allowed]_vars

C20_Witness ==
    /\ got.id \in DOMAIN db
    /\ got.caller.role = "USER"
    /\ got.caller.id # db[got.id].userId
    /\ db[got.id].status = COMPLETED
    /\ got.resp = Forbidden

\* the message of the error a processor's remote call ends in
FailureMessage(proc, kind) ==
    CASE kind = "timeout" -> TimeoutMsg
      [] kind = "network_error" -> FetchFailedMsg
      [] kind = "http_error" -> IF proc = "Q" THEN PythonApiErrorMsg ELSE MlApiErrorMsg

\* the job of id after one more failed attempt: waiting while fewer than 3 attempts
\* were made, failed otherwise
Reraised(id) ==
    /\ jobs'[id].attemptsMade = jobs[id].attemptsMade + 1
    /\ jobs'[id].state =
          IF jobs[id].attemptsMade + 1 < Attempts THEN "waiting" ELSE "failed"

\* C21: when the remote call of a worker attempt ends in a timeout, a non-2xx
\* answer or a network error, the attempt leaves the prediction ERROR with that
\* failure's message, and the job has one more failed attempt and waits for
\* redelivery as long as fewer than 3 attempts were made
C21_FailureRecordedAndReraised ==
    [][\A id \in Ids :
          /\ \A o \in FetchOutcomes :
                (o.kind # "ok" /\ QFinish(id, o))
                    => /\ db'[id].status = ERROR
                       /\ db'[id].errorMessage = FailureMessage("Q", o.kind)
                       /\ Reraised(id)
          /\ \A o \in PredictOutcomes :
                (o.kind # "ok" /\ WFinish(id, o))
                    => /\ db'[id].status = ERROR
                       /\ db'[id].errorMessage = FailureMessage("W", o.kind)
                       /\ Reraised(id)]_vars

C21_Witness ==
    \E id \in DOMAIN db :
        /\ jobs[id].state = "waiting"
        /\ jobs[id].attemptsMade = 2
        /\ db[id].status = ERROR
        /\ db[id].errorMessage = TimeoutMsg

\* C22 as stated: markProcessing of a prediction that is already PROCESSING is a
\* no-op: the stored record is the same after the call as before it
C22_Stated_SameRecord ==
    [][(/\ last'.op = "markProcessing"
        /\ now' = now
        /\ last'.id \in DOMAIN db
        /\ db[last'.id].status = PROCESSING)
          => db' = db]_vars

\* C22: markProcessing of a prediction that is already PROCESSING leaves every
\* column but updatedAt as it was, and updatedAt holds the time of the call; so do
\* two applications to a PENDING prediction compared with one (a step that keeps
\* the clock is a call)
C22_MarkProcessingIdempotent ==
    [][(/\ last'.op = "markProcessing"
        /\ now' = now
        /\ last'.id \in DOMAIN db
        /\ db[last'.id].status = PROCESSING)
          => /\ last'.thrown = NoThrow
             /\ db' = [db EXCEPT ![last'.id].updatedAt = now]]_vars

C22_Witness ==
    /\ last.op = "markProcessing"
    /\ last.was = PROCESSING
    /\ last.id \in DOMAIN db
    /\ db[last.id].status = PROCESSING
    /\ db[last.id].updatedAt = 1

\* the jobs being processed
Processing == {j \in DOMAIN jobs : jobs[j].state = "active"}

\* C23: at most 3 jobs are being processed at any moment, also when the worker of
\* enqueuePrediction and a worker of initializePredictionWorker both exist
C23_AtMostThreeConcurrent ==
    Cardinality(Processing) <= 3

\* the fields a settlement decides
Settled(r) ==
    [status |-> r.status, costTotal |-> r.costTotal, euroPerKg |-> r.euroPerKg,
     errorMessage |-> r.errorMessage]

\* the record of id after a webhook with status completed and an output of cost c
ByWebhook(id, c) ==
    WebhookPost(db, TRUE, HookPayload(TRUE, id, "completed", TRUE, c, "undefined")).db[id]

\* the remote's 2xx answer of cost c, as a job processor receives it
AnswerOf(c) ==
    [kind |-> "ok", body |-> [cost |-> c, estimated_cost |-> Undefined, cost_total |-> c]]

\* C24: for every stored prediction and every remote result, a webhook with status
\* completed leaves the same status, costTotal, euroPerKg and errorMessage as a
\* worker attempt that received that result
C24_WebhookSettlesAsWorker ==
    \A id \in DOMAIN db : \A c \in HookCosts :
        /\ Settled(ByWebhook(id, c))
              = Settled(QProcessAfterFetch(db, id, AnswerOf(c)).db[id])
        /\ Settled(ByWebhook(id, c))
              = Settled(WProcessAfterPredict(db, id, AnswerOf(c)).db[id])

\* C25: a webhook request that is answered 200 has settled the prediction it names:
\* after it the record is COMPLETED or ERROR, and ERROR when its status is error
C25_AcceptedWebhookSettles ==
    [][\A h \in HookRequests :
          (Webhook(SecretOk(h.header), h.payload) /\ hookResp' = 200)
              => /\ h.payload.prediction_id \in DOMAIN db'
                 /\ db'[h.payload.prediction_id].status \in Terminal
                 /\ h.payload.status = "error"
                       => db'[h.payload.prediction_id].status = ERROR]_vars

\* what a settlement write decides of a record, and the error of the write
Verdict(r, id) ==
    [status |-> r.db[id].status, errorMessage |-> r.db[id].errorMessage]

\* the table with the record of id as no settlement had touched it
Unsettled(id) ==
    [db EXCEPT ![id].status = PENDING, ![id].errorMessage = NoMsg]

\* the webhook requests that reach a settlement write: the shared secret, a
\* well-formed payload, and status error or an output to complete with
Accepted ==
    {h \in HookRequests :
        /\ SecretOk(h.header)
        /\ h.payload.valid
        /\ h.payload.status = "error" \/ h.payload.hasOutput}

\* C26: a settlement write of a worker attempt or of a webhook is never refused
\* because of the status another settlement left, and the status and errorMessage
\* after it are those it would leave on a record nobody had settled: the write
\* applied last decides them
C26_LastWriterWins ==
    \A id \in DOMAIN db :
        /\ \A o \in FetchOutcomes :
              LET here == QProcessAfterFetch(db, id, o)
                  fresh == QProcessAfterFetch(Unsettled(id), id, o)
              IN  Verdict(here, id) = Verdict(fresh, id) /\ here.thrown = fresh.thrown
        /\ \A o \in PredictOutcomes :
              LET here == WProcessAfterPredict(db, id, o)
                  fresh == WProcessAfterPredict(Unsettled(id), id, o)
              IN  Verdict(here, id) = Verdict(fresh, id) /\ here.thrown = fresh.thrown
        /\ \A h \in {a \in Accepted : a.payload.prediction_id = id} :
              LET here == WebhookPost(db, TRUE, h.payload)
                  fresh == WebhookPost(Unsettled(id), TRUE, h.payload)
              IN  Verdict(here, id) = Verdict(fresh, id) /\ here.status = fresh.status

C26_Witness ==
    \E id \in DOMAIN db :
        /\ runs[id] = 1
        /\ db[id].costTotal = Num(2500, 1)
        /\ db[id].status = ERROR
        /\ db[id].errorMessage = "ML failure"

\* C27: when the create request of the synchronous flow is answered 200 (its body
\* says status "COMPLETED"), the stored prediction is COMPLETED
C27_Sync200IsCompleted ==
    [][\A id \in Ids :
          (post[id] = "fetch" /\ post'[id] = "r200")
              => db'[id].status = COMPLETED]_vars

\* C28: every prediction created in queued mode is eventually COMPLETED or ERROR
C28_QueuedEventuallySettled ==
    \A id \in Ids :
        (useQueue /\ id \in DOMAIN db)
            ~> (id \in DOMAIN db /\ db[id].status \in Terminal)

\* C29: a prediction carries an errorMessage only when it is ERROR, or COMPLETED
\* with the advisory warning; a PENDING or PROCESSING prediction carries none
C29_MessageOnlyWhenSettled ==
    \A id \in DOMAIN db :
        db[id].errorMessage # NoMsg
            => \/ db[id].status = ERROR
               \/ db[id].status = COMPLETED /\ db[id].errorMessage = WarningMsg

\* the columns set at creation
CreationColumns ==
    {"userId", "inputJson", "currency", "volumeTon", "leadTimeDays", "fuelIndex",
     "taxMultiplier"}

\* C30: no step removes a stored prediction or gives it another id, and no step
\* changes its userId, inputJson, currency, volumeTon, leadTimeDays, fuelIndex or
\* taxMultiplier
C30_CreationColumnsFrozen ==
    [][\A id \in DOMAIN db :
          /\ id \in DOMAIN db'
          /\ \A f \in CreationColumns : db'[id][f] = db[id][f]]_vars

C30_Witness ==
    \E id \in DOMAIN db :
        /\ runs[id] = 1
        /\ jobs[id].attemptsMade = 0
        /\ hookResp = 200
        /\ db[id].status = ERROR
        /\ db[id].costTotal = Num(2500, 1)
        /\ db[id].inputJson = [volume_ton |-> Num(1000, 1)]
        /\ db[id].taxMultiplier = Num(6, 5)

====
